---- MODULE Spec2Model ----
(***************************************************************************)
(* Model of probe-run's pc2frames: the DWARF walk that builds the map from *)
(* PC ranges to frames (src/src/pc2frames.rs), and its name demangler.     *)
(*                                                                         *)
(* Strings are sequences of characters; a character is a one-character     *)
(* TLA+ string.  Rust strings are UTF-8: `len` and slicing count bytes,    *)
(* `pop` removes a character, so each character has a byte width.          *)
(***************************************************************************)
EXTENDS Bags, FiniteSets, Integers, Sequences, TLC

VARIABLES
    \* ---- pc2frames::from ----
    live_functions,    \* the `live_functions` argument
    pc,                \* position in `from`: "units_next", "next_dfs", "returned"
    depth,             \* `depth`
    subprogram_depth,  \* `subprogram_depth`: None or Some(depth)
    elements,          \* `elements`
    outcome,           \* "running", "Ok", "Err" (an anyhow::Error is returned) or "panic"
    error,             \* the message of the Err or panic
    map,               \* the returned Map: None or Some(bag of the elements)
    \* ---- the input read so far (history) ----
    units_read,        \* number of unit headers `units.next()` has yielded
    entries_read,      \* number of DIEs the cursors have yielded below the unit roots
    path,              \* the DIEs from the root of the current unit down to the DIE the
                       \* cursor yielded last: [entry, depth, element], where element is
                       \* the index in `elements` of the element pushed for it, or 0
    emitter,           \* for each element, the [unit, entry, depth] it was pushed for
    \* ---- demangle alone ----
    function,          \* the `function` argument
    demangled,         \* None, or Some(result of demangle)
    \* ---- from on every order of the same units ----
    input,             \* a whole input: a sequence of units
    results,           \* None, or Some(the result of `from` on each order of the units)
    \* ---- dep::Path ----
    std_path,          \* the `path` argument of Path::from_std_path
    dep_path,          \* None, or Some(the Path it returned)
    short,             \* None, or Some(its format_short())
    highlight          \* None, or Some(its format_highlight())

walk_vars == <<live_functions, pc, depth, subprogram_depth, elements, outcome, error, map,
               units_read, entries_read, path, emitter>>
demangle_vars == <<function, demangled>>
input_vars == <<input, results>>
dep_vars == <<std_path, dep_path, short, highlight>>

vars == <<walk_vars, demangle_vars, input_vars, dep_vars>>

----------------------------------------------------------------------------
(* Option<T> *)
None == <<>>
Some(v) == <<v>>
IsSome(o) == o # None
Unwrap(o) == o[1]

(* Option::or *)
OptionOr(a, b) == IF IsSome(a) THEN a ELSE b

Last(s) == s[Len(s)]

----------------------------------------------------------------------------
(* Strings *)

\* Width in bytes of the UTF-8 encoding of a character.
Utf8Len(c) == IF c = "é" THEN 2 ELSE 1

RECURSIVE ByteLen(_)
\* str::len: the length in bytes.
ByteLen(s) == IF s = <<>> THEN 0 ELSE Utf8Len(Head(s)) + ByteLen(Tail(s))

\* The byte offsets at which a character of s starts, and the end of s.
CharBoundaries(s) == {ByteLen(SubSeq(s, 1, k)) : k \in 0..Len(s)}

\* &s[pos..] for a pos that is a char boundary: the characters from byte pos on.
SliceFrom(s, pos) ==
    LET k == CHOOSE k \in 0..Len(s) : ByteLen(SubSeq(s, 1, k)) = pos
    IN  SubSeq(s, k + 1, Len(s))

\* str::starts_with
StartsWith(s, prefix) ==
    /\ Len(s) >= Len(prefix)
    /\ SubSeq(s, 1, Len(prefix)) = prefix

\* n times String::pop: each removes the last character, and does nothing on "".
PopN(s, n) == SubSeq(s, 1, IF Len(s) > n THEN Len(s) - n ELSE 0)

Digits == <<"0", "1", "2", "3", "4", "5", "6", "7", "8", "9">>
IsDigit(c) == \E i \in 1..10 : Digits[i] = c
DigitValue(c) == (CHOOSE i \in 1..10 : Digits[i] = c) - 1

HexDigits == {"0", "1", "2", "3", "4", "5", "6", "7", "8", "9",
              "a", "b", "c", "d", "e", "f", "A", "B", "C", "D", "E", "F"}

----------------------------------------------------------------------------
(* rustc_demangle::demangle(function).to_string(), for the legacy mangling:    *)
(* `_ZN`, then elements <decimal length><identifier>, then `E`.  The elements  *)
(* are printed joined by `::`, the hash element included ({} formatting).  A   *)
(* name that is not of this form is printed as it is.                          *)

RECURSIVE LegacyElements(_, _)
\* <<valid, identifiers>>: whether `inner` is a sequence of elements closed by
\* `E`, and the identifiers of its elements, added to acc.
LegacyElements(inner, acc) ==
    IF inner = <<>> THEN <<FALSE, acc>>
    ELSE IF Head(inner) = "E" THEN <<Len(inner) = 1, acc>>
    ELSE IF ~IsDigit(Head(inner)) THEN <<FALSE, acc>>
    ELSE LET nd  == CHOOSE n \in 1..Len(inner) :
                        /\ \A i \in 1..n : IsDigit(inner[i])
                        /\ (n = Len(inner) \/ ~IsDigit(inner[n + 1]))
             RECURSIVE Value(_)
             Value(k) == IF k = 0 THEN 0 ELSE 10 * Value(k - 1) + DigitValue(inner[k])
             len == Value(nd)
         IN  IF nd + len >= Len(inner) THEN <<FALSE, acc>>
             ELSE LegacyElements(SubSeq(inner, nd + len + 1, Len(inner)),
                                 Append(acc, SubSeq(inner, nd + 1, nd + len)))

RECURSIVE JoinPath(_)
JoinPath(idents) ==
    IF idents = <<>> THEN <<>>
    ELSE IF Len(idents) = 1 THEN idents[1]
    ELSE idents[1] \o <<":", ":">> \o JoinPath(Tail(idents))

rustc_demangle(s) ==
    IF StartsWith(s, <<"_", "Z", "N">>) /\ \A i \in 1..Len(s) : Utf8Len(s[i]) = 1
    THEN LET parsed == LegacyElements(SubSeq(s, 4, Len(s)), <<>>)
         IN  IF parsed[1] THEN JoinPath(parsed[2]) ELSE s
    ELSE s

----------------------------------------------------------------------------
(* fn demangle *)

\* "::hd881d91ced85c2b0".len()
hash_len == 19

\* The result of demangle: [panic |-> FALSE, value |-> the String], or
\* [panic |-> TRUE, ...] when the slice `&demangled[pos..]` is taken at a byte
\* offset that is not a char boundary.
demangle(fn) ==
    LET d == rustc_demangle(fn)
    IN  IF ByteLen(d) >= hash_len                  \* checked_sub is Some(pos)
        THEN LET pos == ByteLen(d) - hash_len
             IN  IF pos \notin CharBoundaries(d)
                 THEN [panic |-> TRUE, value |-> <<>>]
                 ELSE IF StartsWith(SliceFrom(d, pos), <<":", ":", "h">>)
                      THEN [panic |-> FALSE, value |-> PopN(d, hash_len)]
                      ELSE [panic |-> FALSE, value |-> d]
        ELSE [panic |-> FALSE, value |-> d]

----------------------------------------------------------------------------
(* Names and addresses of the inputs *)

Str_g == <<"g">>
\* A name of 20 bytes whose first character takes two.
Str_e == <<"é", "a", "b", "c", "d", "e", "f", "g", "h", "i", "j", "k", "l", "m", "n", "o",
           "p", "q", "r">>
\* `f::h0123456789abcdef`, mangled
Mangled_f == <<"_", "Z", "N", "1", "f", "1", "7", "h", "0", "1", "2", "3", "4", "5",
               "6", "7", "8", "9", "a", "b", "c", "d", "e", "f", "E">>

\* .debug_str: the strings a DW_AT_linkage_name or DW_AT_name refers to by offset.
DebugStr == <<Mangled_f, Str_g, Str_e>>
off_f == 1
off_g == 2
off_e == 3

\* dwarf.string(off)?.to_string()?.into_owned()
dwarf_string(off) == DebugStr[off]


----------------------------------------------------------------------------
(* Debugging information entries.  An attribute is None when the DIE does not *)
(* carry it.  abstract_origin holds the DIE that `unit.entry(off)` yields.     *)

NoAttrs(tag) ==
    [tag |-> tag, linkage_name |-> None, name |-> None, inlined |-> FALSE,
     low_pc |-> None, pc_offset |-> None, abstract_origin |-> None,
     ranges |-> None, call_file |-> None, call_line |-> None]

----------------------------------------------------------------------------
(* Span, Subprogram::from_die *)

SpanPc(start, end) == [kind |-> "Pc", range |-> <<start, end>>]
SpanInlined == [kind |-> "Inlined", range |-> <<>>]

\* A variant that takes a function definition without an address for one that
\* was only ever inlined.
Subprogram_from_die_Lenient(entry, d) ==
    IF entry.tag # "DW_TAG_subprogram"
    THEN [kind |-> "panic", msg |-> "assertion failed: tag", sub |-> <<>>]
    ELSE LET off == OptionOr(entry.linkage_name, entry.name)
         IN  IF IsSome(off)
             THEN IF entry.inlined \/ entry.low_pc = None \/ entry.pc_offset = None
                  THEN [kind |-> "Some", msg |-> "",
                        sub |-> [depth |-> d, name |-> dwarf_string(Unwrap(off)),
                                 span |-> SpanInlined]]
                  ELSE [kind |-> "Some", msg |-> "",
                        sub |-> [depth |-> d, name |-> dwarf_string(Unwrap(off)),
                                 span |-> SpanPc(Unwrap(entry.low_pc),
                                                 Unwrap(entry.low_pc) + Unwrap(entry.pc_offset))]]
             ELSE [kind |-> "None", msg |-> "", sub |-> <<>>]

\* A variant that prefers the display name to the linkage name.
Subprogram_from_die_DisplayFirst(entry, d) ==
    IF entry.tag # "DW_TAG_subprogram"
    THEN [kind |-> "panic", msg |-> "assertion failed: tag", sub |-> <<>>]
    ELSE LET off == OptionOr(entry.name, entry.linkage_name)
         IN  IF IsSome(off)
             THEN IF entry.inlined
                  THEN [kind |-> "Some", msg |-> "",
                        sub |-> [depth |-> d, name |-> dwarf_string(Unwrap(off)),
                                 span |-> SpanInlined]]
                  ELSE IF entry.low_pc = None
                  THEN [kind |-> "panic", msg |-> "Subprogram: no low_pc", sub |-> <<>>]
                  ELSE IF entry.pc_offset = None
                  THEN [kind |-> "panic", msg |-> "Subprogram: no high_pc", sub |-> <<>>]
                  ELSE [kind |-> "Some", msg |-> "",
                        sub |-> [depth |-> d, name |-> dwarf_string(Unwrap(off)),
                                 span |-> SpanPc(Unwrap(entry.low_pc),
                                                 Unwrap(entry.low_pc) + Unwrap(entry.pc_offset))]]
             ELSE [kind |-> "None", msg |-> "", sub |-> <<>>]

\* A variant that gives a definition with the inlined marker the span of its
\* address attributes when it has them.
Subprogram_from_die_AddressFirst(entry, d) ==
    IF entry.tag # "DW_TAG_subprogram"
    THEN [kind |-> "panic", msg |-> "assertion failed: tag", sub |-> <<>>]
    ELSE LET off == OptionOr(entry.linkage_name, entry.name)
         IN  IF IsSome(off)
             THEN IF entry.inlined /\ (entry.low_pc = None \/ entry.pc_offset = None)
                  THEN [kind |-> "Some", msg |-> "",
                        sub |-> [depth |-> d, name |-> dwarf_string(Unwrap(off)),
                                 span |-> SpanInlined]]
                  ELSE IF entry.low_pc = None
                  THEN [kind |-> "panic", msg |-> "Subprogram: no low_pc", sub |-> <<>>]
                  ELSE IF entry.pc_offset = None
                  THEN [kind |-> "panic", msg |-> "Subprogram: no high_pc", sub |-> <<>>]
                  ELSE [kind |-> "Some", msg |-> "",
                        sub |-> [depth |-> d, name |-> dwarf_string(Unwrap(off)),
                                 span |-> SpanPc(Unwrap(entry.low_pc),
                                                 Unwrap(entry.low_pc) + Unwrap(entry.pc_offset))]]
             ELSE [kind |-> "None", msg |-> "", sub |-> <<>>]

\* Ok(Some(sub)), Ok(None), or a panic.
Subprogram_from_die(entry, d) ==
    IF entry.tag # "DW_TAG_subprogram"
    THEN [kind |-> "panic", msg |-> "assertion failed: tag", sub |-> <<>>]
    ELSE LET off == OptionOr(entry.linkage_name, entry.name)
         IN  IF IsSome(off)
             THEN IF entry.inlined
                  THEN [kind |-> "Some", msg |-> "",
                        sub |-> [depth |-> d, name |-> dwarf_string(Unwrap(off)),
                                 span |-> SpanInlined]]
                  ELSE IF entry.low_pc = None
                  THEN [kind |-> "panic", msg |-> "Subprogram: no low_pc", sub |-> <<>>]
                  ELSE IF entry.pc_offset = None
                  THEN [kind |-> "panic", msg |-> "Subprogram: no high_pc", sub |-> <<>>]
                  ELSE [kind |-> "Some", msg |-> "",
                        sub |-> [depth |-> d, name |-> dwarf_string(Unwrap(off)),
                                 span |-> SpanPc(Unwrap(entry.low_pc),
                                                 Unwrap(entry.low_pc) + Unwrap(entry.pc_offset))]]
             ELSE [kind |-> "None", msg |-> "", sub |-> <<>>]

----------------------------------------------------------------------------
(* InlinedSubroutine::from_die.  The attributes are scanned in the order      *)
(* abstract_origin, ranges, low_pc, high_pc, call_file, call_line.            *)

\* A variant that derives the range from low_pc and high_pc when the DIE has
\* both, and reads the range list only otherwise.
InlinedSubroutine_from_die_LowPcFirst(entry, d) ==
    LET origin == IF IsSome(entry.abstract_origin)
                  THEN Subprogram_from_die(Unwrap(entry.abstract_origin), d)
                  ELSE [kind |-> "absent", msg |-> "", sub |-> <<>>]
        Panic(m) == [kind |-> "panic", msg |-> m, val |-> <<>>]
    IN  IF entry.tag # "DW_TAG_inlined_subroutine" THEN Panic("assertion failed: tag")
        ELSE IF origin.kind = "panic" THEN Panic(origin.msg)
        ELSE IF origin.kind = "None" THEN Panic("called Option::unwrap() on a None value")
        ELSE IF IsSome(entry.ranges) /\ Unwrap(entry.ranges) = <<>>
             THEN Panic("unexpected end of range list")
        ELSE IF entry.ranges = None /\ entry.low_pc = None THEN Panic("no low_pc")
        ELSE IF entry.ranges = None /\ entry.pc_offset = None THEN Panic("no high_pc")
        ELSE IF origin.kind = "absent" THEN Panic("no abstract_origin")
        ELSE IF entry.call_file = None THEN Panic("no call_file")
        ELSE IF entry.call_line = None THEN Panic("no call_line")
        ELSE [kind |-> "Ok", msg |-> "",
              val |-> [origin |-> origin.sub,
                       call_file |-> Unwrap(entry.call_file),
                       call_line |-> Unwrap(entry.call_line),
                       pc |-> IF IsSome(entry.low_pc) /\ IsSome(entry.pc_offset)
                              THEN <<Unwrap(entry.low_pc),
                                     Unwrap(entry.low_pc) + Unwrap(entry.pc_offset)>>
                              ELSE Head(Unwrap(entry.ranges))]]

\* Ok(inline_sub) or a panic.
InlinedSubroutine_from_die(entry, d) ==
    LET origin == IF IsSome(entry.abstract_origin)
                  THEN Subprogram_from_die(Unwrap(entry.abstract_origin), d)
                  ELSE [kind |-> "absent", msg |-> "", sub |-> <<>>]
        Panic(m) == [kind |-> "panic", msg |-> m, val |-> <<>>]
    IN  IF entry.tag # "DW_TAG_inlined_subroutine" THEN Panic("assertion failed: tag")
        ELSE IF origin.kind = "panic" THEN Panic(origin.msg)
        ELSE IF origin.kind = "None" THEN Panic("called Option::unwrap() on a None value")
        ELSE IF IsSome(entry.ranges) /\ Unwrap(entry.ranges) = <<>>
             THEN Panic("unexpected end of range list")
        ELSE IF entry.ranges = None /\ entry.low_pc = None THEN Panic("no low_pc")
        ELSE IF entry.ranges = None /\ entry.pc_offset = None THEN Panic("no high_pc")
        ELSE IF origin.kind = "absent" THEN Panic("no abstract_origin")
        ELSE IF entry.call_file = None THEN Panic("no call_file")
        ELSE IF entry.call_line = None THEN Panic("no call_line")
        ELSE [kind |-> "Ok", msg |-> "",
              val |-> [origin |-> origin.sub,
                       call_file |-> Unwrap(entry.call_file),
                       call_line |-> Unwrap(entry.call_line),
                       pc |-> IF IsSome(entry.ranges)
                              THEN Head(Unwrap(entry.ranges))
                              ELSE <<Unwrap(entry.low_pc),
                                     Unwrap(entry.low_pc) + Unwrap(entry.pc_offset)>>]]

----------------------------------------------------------------------------
(* The body of the inner loop of `from`, on the loop state                  *)
(* w = [depth, subprogram_depth, elements, outcome, error, ...].              *)

Element(range, name, d) == [range |-> range, value |-> [name |-> name, depth |-> d]]

Failed(w, how, msg) == [w EXCEPT !.outcome = how, !.error = msg]

\* Variants: subprogram_depth is never reset; and it is reset only by a DIE
\* above the subprogram.
LeaveSubprogram_Never(d, sd) == sd
LeaveSubprogram_Strict(d, sd) == IF IsSome(sd) /\ d < Unwrap(sd) THEN None ELSE sd

\* A variant that resets subprogram_depth only at a sibling of the subprogram.
LeaveSubprogram_SiblingOnly(d, sd) == IF IsSome(sd) /\ d = Unwrap(sd) THEN None ELSE sd

\* leaving subprogram DIE
LeaveSubprogram(d, sd) == IF IsSome(sd) /\ d <= Unwrap(sd) THEN None ELSE sd

\* live_functions.contains(&*sub.name)
IsLive(live, name) == name \in live

\* A variant of the DW_TAG_subprogram branch that pushes the name as the
\* debug info spells it.
VisitSubprogram_RawName(w, entry, live) ==
    LET r == Subprogram_from_die(entry, w.depth)
    IN  IF r.kind = "panic" THEN Failed(w, "panic", r.msg)
        ELSE IF r.kind = "None" THEN w
        ELSE IF r.sub.span.kind = "Pc"
        THEN IF IsLive(live, r.sub.name)
             THEN IF IsSome(w.subprogram_depth)
                  THEN Failed(w, "panic", "BUG? nested subprogram")
                  ELSE [w EXCEPT !.subprogram_depth = Some(w.depth),
                                 !.elements = Append(@, Element(r.sub.span.range,
                                                                r.sub.name, w.depth))]
             ELSE w
        ELSE w

\* A variant of the DW_TAG_subprogram branch that records the depth of every
\* function definition with an address, live or not.
VisitSubprogram_DeadTracked(w, entry, live) ==
    LET r == Subprogram_from_die(entry, w.depth)
    IN  IF r.kind = "panic" THEN Failed(w, "panic", r.msg)
        ELSE IF r.kind = "None" THEN w
        ELSE IF r.sub.span.kind = "Pc"
        THEN IF IsLive(live, r.sub.name)
             THEN IF IsSome(w.subprogram_depth)
                  THEN Failed(w, "panic", "BUG? nested subprogram")
                  ELSE LET n == demangle(r.sub.name)
                       IN  IF n.panic
                           THEN Failed([w EXCEPT !.subprogram_depth = Some(w.depth)],
                                       "panic", "byte index is not a char boundary")
                           ELSE [w EXCEPT !.subprogram_depth = Some(w.depth),
                                          !.elements = Append(@, Element(r.sub.span.range,
                                                                         n.value, w.depth))]
             ELSE [w EXCEPT !.subprogram_depth = Some(w.depth)]
        ELSE w

\* The DW_TAG_subprogram branch.
VisitSubprogram(w, entry, live) ==
    LET r == Subprogram_from_die(entry, w.depth)
    IN  IF r.kind = "panic" THEN Failed(w, "panic", r.msg)
        ELSE IF r.kind = "None" THEN w
        ELSE IF r.sub.span.kind = "Pc"
        THEN IF IsLive(live, r.sub.name)
             THEN IF IsSome(w.subprogram_depth)
                  THEN Failed(w, "panic", "BUG? nested subprogram")
                  ELSE LET n == demangle(r.sub.name)
                       IN  IF n.panic
                           THEN Failed([w EXCEPT !.subprogram_depth = Some(w.depth)],
                                       "panic", "byte index is not a char boundary")
                           ELSE [w EXCEPT !.subprogram_depth = Some(w.depth),
                                          !.elements = Append(@, Element(r.sub.span.range,
                                                                         n.value, w.depth))]
             ELSE w
        ELSE w

\* A variant of the branch taken within a live subprogram that pushes the
\* name of the origin as the debug info spells it.
VisitInlined_RawName(w, entry) ==
    IF entry.tag = "DW_TAG_inlined_subroutine"
    THEN LET r == InlinedSubroutine_from_die(entry, w.depth)
         IN  IF r.kind = "panic" THEN Failed(w, "panic", r.msg)
             ELSE [w EXCEPT !.elements = Append(@, Element(r.val.pc, r.val.origin.name,
                                                           w.depth))]
    ELSE w

\* The branch taken within a live subprogram.
VisitInlined(w, entry) ==
    IF entry.tag = "DW_TAG_inlined_subroutine"
    THEN LET r == InlinedSubroutine_from_die(entry, w.depth)
         IN  IF r.kind = "panic" THEN Failed(w, "panic", r.msg)
             ELSE LET n == demangle(r.val.origin.name)
                  IN  IF n.panic
                      THEN Failed(w, "panic", "byte index is not a char boundary")
                      ELSE [w EXCEPT !.elements = Append(@, Element(r.val.pc, n.value, w.depth))]
    ELSE w

StepWalk(w, delta_depth, entry, live) ==
    LET d  == w.depth + delta_depth
        w1 == [w EXCEPT !.depth = d,
                        !.subprogram_depth = LeaveSubprogram(d, w.subprogram_depth)]
    IN  IF entry.tag = "DW_TAG_subprogram" THEN VisitSubprogram(w1, entry, live)
        ELSE IF IsSome(w1.subprogram_depth) THEN VisitInlined(w1, entry)
        ELSE w1

\* `let mut elements = vec![]`
NewLoopState ==
    [depth |-> 0, subprogram_depth |-> None, elements |-> <<>>,
     outcome |-> "running", error |-> "", emitter |-> <<>>]

\* A variant that carries depth and subprogram_depth over to the next unit.
UnitLoopState_Kept(w) == w

\* `let mut depth = 0; let mut subprogram_depth = None`, once per unit.
UnitLoopState(w) == [w EXCEPT !.depth = 0, !.subprogram_depth = None]

RECURSIVE SeqToBag(_)
SeqToBag(s) == IF s = <<>> THEN EmptyBag ELSE SetToBag({Head(s)}) (+) SeqToBag(Tail(s))

\* IntervalTree::from_iter: the tree holds every element given, in no order.
IntervalTree_from_iter(elems) == SeqToBag(elems)

----------------------------------------------------------------------------
(* The inputs: the DIEs a cursor may yield *)

\* Bounds of the walk: units in the input, and DIEs below the unit roots.
MaxUnits == 2
MaxEntries == 3

Subprogram(linkage_name, name, inlined, low_pc, pc_offset) ==
    [NoAttrs("DW_TAG_subprogram") EXCEPT
        !.linkage_name = linkage_name, !.name = name, !.inlined = inlined,
        !.low_pc = low_pc, !.pc_offset = pc_offset]

InlinedSubroutine(origin, name, ranges, low_pc, pc_offset, call_file, call_line) ==
    [NoAttrs("DW_TAG_inlined_subroutine") EXCEPT
        !.abstract_origin = origin, !.name = name, !.ranges = ranges,
        !.low_pc = low_pc, !.pc_offset = pc_offset,
        !.call_file = call_file, !.call_line = call_line]

\* A live function definition with code.
LiveFn == Subprogram(Some(off_f), None, FALSE, Some(1), Some(2))

\* Function definitions: live with code, dead with code, unnamed, and named
\* ones (live and dead) lacking an address.
SubprogramDies ==
    { LiveFn,
      Subprogram(None, Some(off_g), FALSE, Some(1), Some(2)),
      Subprogram(None, None, FALSE, None, None),
      Subprogram(Some(off_f), None, FALSE, None, Some(2)),
      Subprogram(None, Some(off_g), FALSE, Some(1), None) }

\* An inline call site located by low_pc and high_pc.
InlineOk ==
    InlinedSubroutine(Some(Subprogram(Some(off_f), Some(off_g), TRUE, None, None)),
                      Some(off_g), None, Some(2), Some(1), Some(1), Some(7))

\* An inline call site located by a range list.
InlineRanges ==
    InlinedSubroutine(Some(Subprogram(None, Some(off_g), TRUE, None, None)),
                      None, Some(<<(<<5, 6>>), (<<8, 9>>)>>), None, None, Some(1), Some(7))

\* Inline call sites: with all their attributes, and lacking the abstract origin.
InlinedSubroutineDies ==
    { InlineOk, InlineRanges,
      InlinedSubroutine(None, Some(off_g), None, Some(2), Some(1), Some(1), Some(7)) }

Dies == SubprogramDies \cup InlinedSubroutineDies \cup {NoAttrs("DW_TAG_lexical_block")}

\* The first DIE of a unit: the unit DIE, or any other.
RootDies == {NoAttrs("DW_TAG_lexical_block"), LiveFn}

LiveSets == { {Mangled_f} }

----------------------------------------------------------------------------
(* pc2frames::from as a state machine *)

Idle ==
    /\ function = <<>> /\ demangled = None
    /\ input = <<>> /\ results = None
    /\ std_path = <<>> /\ dep_path = None /\ short = None /\ highlight = None

InitWalk ==
    /\ live_functions \in LiveSets
    /\ pc = "units_next"
    /\ depth = 0
    /\ subprogram_depth = None
    /\ elements = <<>>
    /\ outcome = "running"
    /\ error = ""
    /\ map = None
    /\ units_read = 0
    /\ entries_read = 0
    /\ path = <<>>
    /\ emitter = <<>>

Init == InitWalk /\ Idle

\* The loops run until the function returns or unwinds.
Running == outcome = "running"

\* The loop state of `from`.
LoopState ==
    [depth |-> depth, subprogram_depth |-> subprogram_depth,
     elements |-> elements, outcome |-> outcome, error |-> error, emitter |-> <<>>]

\* A variant that hands over the map of the elements pushed so far, however
\* the pass ends.
Returned_Partial(how, elems) == Some(IntervalTree_from_iter(elems))

\* What `from` hands to its caller when it ends with `how`.
Returned(how, elems) == IF how = "Ok" THEN Some(IntervalTree_from_iter(elems)) ELSE None

\* A variant that runs the body of the inner loop on the first DIE of the unit.
EnterUnit_Examined(root) ==
    /\ Running /\ pc = "units_next"
    /\ units_read < MaxUnits
    /\ LET w == StepWalk(UnitLoopState(LoopState), 0, root, live_functions)
       IN  /\ depth' = w.depth
           /\ subprogram_depth' = w.subprogram_depth
           /\ elements' = w.elements
           /\ outcome' = w.outcome
           /\ error' = w.error
           /\ map' = Returned(w.outcome, w.elements)
           /\ pc' = IF w.outcome = "running" THEN "next_dfs" ELSE "returned"
    /\ units_read' = units_read + 1
    /\ path' = <<[entry |-> root, depth |-> 0, element |-> 0]>>
    /\ UNCHANGED <<live_functions, entries_read, emitter>>

\* `units.next()?` yields a header and the first `cursor.next_dfs()?` a DIE.
EnterUnit(root) ==
    /\ Running /\ pc = "units_next"
    /\ units_read < MaxUnits
    /\ depth' = UnitLoopState(LoopState).depth
    /\ subprogram_depth' = UnitLoopState(LoopState).subprogram_depth
    /\ pc' = "next_dfs"
    /\ units_read' = units_read + 1
    /\ path' = <<[entry |-> root, depth |-> 0, element |-> 0]>>
    /\ UNCHANGED <<live_functions, elements, outcome, error, map, entries_read, emitter>>

\* `units.next()?` yields a header and the first `cursor.next_dfs()?` None.
EmptyUnit ==
    /\ Running /\ pc = "units_next"
    /\ units_read < MaxUnits
    /\ outcome' = "Err"
    /\ error' = "empty DWARF?"
    /\ map' = Returned("Err", elements)
    /\ pc' = "returned"
    /\ units_read' = units_read + 1
    /\ path' = <<>>
    /\ UNCHANGED <<live_functions, depth, subprogram_depth, elements, entries_read, emitter>>

\* `cursor.next_dfs()?` yields (delta_depth, entry): one run of the loop body.
\* The DIEs below the root of a unit form a tree: their depth is at least 1.
NextDfs(delta_depth, entry) ==
    /\ Running /\ pc = "next_dfs"
    /\ entries_read < MaxEntries
    /\ depth + delta_depth >= 1
    /\ LET w == StepWalk(LoopState, delta_depth, entry, live_functions)
           pushed == Len(w.elements) > Len(elements)
           node == [entry |-> entry, depth |-> depth + delta_depth,
                    element |-> IF pushed THEN Len(w.elements) ELSE 0]
       IN  /\ depth' = w.depth
           /\ subprogram_depth' = w.subprogram_depth
           /\ elements' = w.elements
           /\ outcome' = w.outcome
           /\ error' = w.error
           /\ map' = Returned(w.outcome, w.elements)
           /\ pc' = IF w.outcome = "running" THEN "next_dfs" ELSE "returned"
           /\ path' = Append(SubSeq(path, 1, depth + delta_depth), node)
           /\ emitter' = IF pushed
                         THEN Append(emitter, [unit |-> units_read, entry |-> entry,
                                               depth |-> depth + delta_depth])
                         ELSE emitter
    /\ entries_read' = entries_read + 1
    /\ UNCHANGED <<live_functions, units_read>>

\* `cursor.next_dfs()?` yields None: the unit is done.
LeaveUnit ==
    /\ Running /\ pc = "next_dfs"
    /\ pc' = "units_next"
    /\ UNCHANGED <<live_functions, depth, subprogram_depth, elements, outcome, error, map,
                   units_read, entries_read, path, emitter>>

\* `units.next()?` yields None: the map is built and returned.
Return ==
    /\ Running /\ pc = "units_next"
    /\ outcome' = "Ok"
    /\ map' = Returned("Ok", elements)
    /\ pc' = "returned"
    /\ UNCHANGED <<live_functions, depth, subprogram_depth, elements, error,
                   units_read, entries_read, path, emitter>>

\* A `?` on a result of the DWARF reader returns its error.
ReaderError ==
    /\ Running
    /\ outcome' = "Err"
    /\ error' = "gimli::Error"
    /\ map' = Returned("Err", elements)
    /\ pc' = "returned"
    /\ UNCHANGED <<live_functions, depth, subprogram_depth, elements,
                   units_read, entries_read, path, emitter>>

Next ==
    /\ \/ \E root \in RootDies : EnterUnit(root)
       \/ EmptyUnit
       \/ \E delta_depth \in -MaxEntries..1, entry \in Dies : NextDfs(delta_depth, entry)
       \/ LeaveUnit
       \/ Return
       \/ ReaderError
    /\ UNCHANGED <<demangle_vars, input_vars, dep_vars>>

Spec == Init /\ [][Next]_vars

----------------------------------------------------------------------------
(* pc2frames::from as a function of its whole input: a sequence of units,     *)
(* each the sequence of [entry, depth] its cursor yields, the root first      *)
(* (the empty sequence for a unit whose cursor yields nothing).  The loop     *)
(* state carries, next to the variables of `from`, the history `emitter`:     *)
(* for each element, <<unit, index>> of the DIE it was pushed for.            *)

\* The loop state w1 after a run of the loop body on w for the i-th DIE of
\* the u-th unit, with the history brought up to date.
Recorded(w, w1, u, i) ==
    IF Len(w1.elements) > Len(w.elements)
    THEN [w1 EXCEPT !.emitter = Append(@, <<u, i>>)]
    ELSE w1

\* F of the value of v: the loop state is computed once per run of a loop body.
Then(v, F(_)) == CHOOSE r \in {F(x) : x \in {v}} : TRUE

RECURSIVE WalkUnit(_, _, _, _, _)
\* The inner loop from the i-th DIE of the u-th unit on.
WalkUnit(w, unit, u, i, live) ==
    IF w.outcome # "running" \/ i > Len(unit) THEN w
    ELSE Then(StepWalk(w, unit[i].depth - unit[i - 1].depth, unit[i].entry, live),
              LAMBDA w1 : Then(Recorded(w, w1, u, i),
                               LAMBDA w2 : WalkUnit(w2, unit, u, i + 1, live)))

RECURSIVE WalkUnits(_, _, _, _)
\* The outer loop from the u-th unit on.
WalkUnits(w, us, u, live) ==
    IF w.outcome # "running" \/ u > Len(us) THEN w
    ELSE IF us[u] = <<>> THEN Failed(w, "Err", "empty DWARF?")
    ELSE Then(WalkUnit(UnitLoopState(w), us[u], u, 2, live),
              LAMBDA w1 : WalkUnits(w1, us, u + 1, live))

from(us, live) ==
    LET w == WalkUnits(NewLoopState, us, 1, live)
        how == IF w.outcome = "running" THEN "Ok" ELSE w.outcome
    IN  [outcome |-> how, error |-> w.error, map |-> Returned(how, w.elements),
         elements |-> w.elements, emitter |-> w.emitter]

----------------------------------------------------------------------------
(* `from` on whole inputs, in every order of their units *)

\* Bounds: the DIEs below the root of a unit given as a tree, and the units
\* of an input made of the listed units.
MaxTreeEntries == 3
MaxInputUnits == 3

\* The DIEs below the root of a unit given as a tree.
TreeDies ==
    { LiveFn,
      Subprogram(None, Some(off_g), FALSE, Some(1), Some(2)),
      Subprogram(Some(off_f), None, FALSE, None, Some(2)),
      InlineOk, InlineRanges,
      NoAttrs("DW_TAG_lexical_block") }

RootOf(entry) == [entry |-> entry, depth |-> 0]

\* Units to put in every order: one without a DIE, one of a root alone, one
\* that ends inside a live function, one whose first DIE below the root is an
\* inline call site, one with an inline call site in a live function, and one
\* with a function that lacks its address.
ListedUnits ==
    { <<>>,
      <<RootOf(NoAttrs("DW_TAG_lexical_block"))>>,
      <<RootOf(NoAttrs("DW_TAG_lexical_block")), [entry |-> LiveFn, depth |-> 1]>>,
      <<RootOf(NoAttrs("DW_TAG_lexical_block")), [entry |-> InlineOk, depth |-> 1]>>,
      <<RootOf(NoAttrs("DW_TAG_lexical_block")), [entry |-> LiveFn, depth |-> 1],
        [entry |-> InlineOk, depth |-> 2]>>,
      <<RootOf(NoAttrs("DW_TAG_lexical_block")),
        [entry |-> Subprogram(None, Some(off_g), FALSE, Some(1), None), depth |-> 1]>> }

\* The orders of n units.
Orders(n) == {p \in [1..n -> 1..n] : \A i, j \in 1..n : p[i] = p[j] => i = j}

Reorder(us, p) == [i \in 1..Len(us) |-> us[p[i]]]

\* The order in which the input is given.
Given(us) == [i \in 1..Len(us) |-> i]

WalkIdle ==
    /\ live_functions = {Mangled_f}
    /\ pc = "units_next" /\ depth = 0 /\ subprogram_depth = None /\ elements = <<>>
    /\ outcome = "running" /\ error = "" /\ map = None
    /\ units_read = 0 /\ entries_read = 0 /\ path = <<>> /\ emitter = <<>>

InitInput ==
    /\ WalkIdle
    /\ std_path = <<>> /\ dep_path = None /\ short = None /\ highlight = None
    /\ function = <<>> /\ demangled = None
    /\ input = <<>>
    /\ results = None

\* The input grows by one of the listed units.
AddListedUnit(unit) ==
    /\ results = None
    /\ Len(input) < MaxInputUnits
    /\ \A u \in 1..Len(input) : input[u] \in ListedUnits
    /\ input' = Append(input, unit)
    /\ UNCHANGED <<results, walk_vars, demangle_vars, dep_vars>>

\* The input is one unit given as a tree, which starts as a root.
AddRoot(root) ==
    /\ results = None
    /\ input = <<>>
    /\ input' = <<(<<RootOf(root)>>)>>
    /\ UNCHANGED <<results, walk_vars, demangle_vars, dep_vars>>

\* The tree grows by one DIE, in depth-first order.
AddEntry(entry, d) ==
    /\ results = None
    /\ Len(input) = 1 /\ input[1] # <<>>
    /\ Len(input[1]) - 1 < MaxTreeEntries
    /\ d <= Last(input[1]).depth + 1
    /\ input' = <<Append(input[1], [entry |-> entry, depth |-> d])>>
    /\ UNCHANGED <<results, walk_vars, demangle_vars, dep_vars>>

\* `from` is called on the input, once for each order of its units.
RunOrders ==
    /\ results = None
    /\ results' = Some([p \in Orders(Len(input)) |-> from(Reorder(input, p), live_functions)])
    /\ UNCHANGED <<input, walk_vars, demangle_vars, dep_vars>>

NextInput ==
    \/ \E unit \in ListedUnits : AddListedUnit(unit)
    \/ \E root \in RootDies : AddRoot(root)
    \/ \E entry \in TreeDies, d \in 1..(MaxTreeEntries + 1) : AddEntry(entry, d)
    \/ RunOrders

SpecInput == InitInput /\ [][NextInput]_vars

----------------------------------------------------------------------------
(* demangle on its own *)

\* Bound: the number of characters in front of the tail of an input name.
MaxPrefix == 2

PrefixChars == {"a", "é"}

Prefixes == UNION {[1..n -> PrefixChars] : n \in 0..MaxPrefix}

Hex16 == <<"0", "1", "2", "3", "4", "5", "6", "7", "8", "9", "a", "b", "c", "d", "e", "f">>

\* The ends of the input names: none; a hash; a hash of capital digits; `::h`
\* and 16 characters that are not hexadecimal digits; `::g` and 16 digits; a
\* hash cut short; a hash lacking a colon; a hash of 17 digits; `::h`, 14
\* digits and a two-byte character; and mangled names with and without a
\* path in front of the hash.
Tails ==
    { <<>>,
      <<":", ":", "h">> \o Hex16,
      <<":", ":", "h", "0", "1", "2", "3", "4", "5", "6", "7", "8", "9",
        "A", "B", "C", "D", "E", "F">>,
      <<":", ":", "h", "a", "n", "d", "l", "e", "_", "i", "n", "t", "e", "r", "r", "u",
        "p", "t", "s">>,
      <<":", ":", "g">> \o Hex16,
      <<":", ":", "h", "0", "1", "2">>,
      <<":", "h">> \o Hex16,
      <<":", ":", "h">> \o Hex16 \o <<"0">>,
      <<":", ":", "h">> \o SubSeq(Hex16, 1, 14) \o <<"é">>,
      Mangled_f,
      <<"_", "Z", "N", "1", "7", "h">> \o Hex16 \o <<"E">>,
      <<"_", "Z", "N", "1", "f">> }

DemangleInputs == {p \o t : p \in Prefixes, t \in Tails}

InitDemangle ==
    /\ WalkIdle
    /\ std_path = <<>> /\ dep_path = None /\ short = None /\ highlight = None
    /\ input = <<>> /\ results = None
    /\ function \in DemangleInputs
    /\ demangled = None

Demangle ==
    /\ demangled = None
    /\ demangled' = Some(demangle(function))
    /\ UNCHANGED <<function, walk_vars, input_vars, dep_vars>>

NextDemangle == Demangle

SpecDemangle == InitDemangle /\ [][NextDemangle]_vars

----------------------------------------------------------------------------
(* Vocabulary of the properties *)

IsFunctionDefinition(e) == e.tag = "DW_TAG_subprogram"
IsInlineCallSite(e) == e.tag = "DW_TAG_inlined_subroutine"

\* The node has a linkage name or a display name.
HasName(e) == IsSome(e.linkage_name) \/ IsSome(e.name)

\* The name of a node that has one: the linkage name, else the display name.
NameOf(e) == DebugStr[IF IsSome(e.linkage_name) THEN e.linkage_name[1] ELSE e.name[1]]

HasAddress(e) == IsSome(e.low_pc) /\ IsSome(e.pc_offset)

\* [low, low + offset) of a node that has both.
DeclaredRange(e) == <<e.low_pc[1], e.low_pc[1] + e.pc_offset[1]>>

\* A function definition with a name in the live set and no inlined marker.
IsLiveFunction(e, live) ==
    /\ IsFunctionDefinition(e) /\ HasName(e) /\ ~e.inlined
    /\ NameOf(e) \in live

\* A function definition with a name that is not in the live set.
IsDeadFunction(e, live) ==
    /\ IsFunctionDefinition(e) /\ HasName(e)
    /\ NameOf(e) \notin live

\* In a unit (DIEs in depth-first order), the j-th DIE lies in the subtree of
\* the i-th and is not the i-th.
InSubtree(unit, i, j) ==
    /\ i < j
    /\ \A k \in (i + 1)..j : unit[k].depth > unit[i].depth

RECURSIVE CountIn(_, _, _, _)
\* The number of entries of the bag m, among those in the set xs, with this
\* range and this Frame name.
CountIn(m, xs, range, name) ==
    IF xs = {} THEN 0
    ELSE LET x == CHOOSE x \in xs : TRUE
         IN  (IF x.range = range /\ x.value.name = name THEN CopiesIn(x, m) ELSE 0)
             + CountIn(m, xs \ {x}, range, name)

EntriesWith(m, range, name) == CountIn(m, BagToSet(m), range, name)

\* The result of `from` on the input as given.
Res == results[1][Given(input)]

\* The nodes of the input below the roots of their units, as <<unit, index>>.
NodesBelowRoot == {n \in (1..Len(input)) \X (2..(MaxTreeEntries + 1)) : n[2] <= Len(input[n[1]])}
AllNodes == {n \in (1..Len(input)) \X (1..(MaxTreeEntries + 1)) : n[2] <= Len(input[n[1]])}

EntryAt(n) == input[n[1]][n[2]].entry
DepthAt(n) == input[n[1]][n[2]].depth

\* The indices of the elements pushed for node n.
PushedFor(r, n) == {k \in 1..Len(r.emitter) : r.emitter[k] = n}

----------------------------------------------------------------------------
(* C1 *)

\* C1, as stated: on a pass that completes, for every function definition
\* (here: below the root of its unit) that has a name, no inlined marker and a
\* live name, the map holds exactly one entry with the range [low, low+offset)
\* and the name demangle(name).
C1_ExactlyOneEntryPerRange ==
    (IsSome(results) /\ Res.outcome = "Ok") =>
        \A n \in NodesBelowRoot :
            IsLiveFunction(EntryAt(n), live_functions) =>
                /\ HasAddress(EntryAt(n))
                /\ EntriesWith(Res.map[1], DeclaredRange(EntryAt(n)),
                               demangle(NameOf(EntryAt(n))).value) = 1

\* C1, amended: on a pass that completes, for every function definition below
\* the root of its unit that has a name, no inlined marker and a live name,
\* exactly one element is pushed, with the range [low, low+offset), the name
\* demangle(name) and the depth of the node, and the map holds every element
\* pushed: one entry for each such node, also when two of them have the same
\* range and name.
C1_OneElementPerLiveFunction ==
    (IsSome(results) /\ Res.outcome = "Ok") =>
        /\ BagCardinality(Res.map[1]) = Len(Res.elements)
        /\ \A n \in NodesBelowRoot :
              IsLiveFunction(EntryAt(n), live_functions) =>
                  /\ HasAddress(EntryAt(n))
                  /\ Cardinality(PushedFor(Res, n)) = 1
                  /\ \A k \in PushedFor(Res, n) :
                        /\ Res.elements[k] =
                              Element(DeclaredRange(EntryAt(n)),
                                      demangle(NameOf(EntryAt(n))).value, DepthAt(n))
                        /\ CopiesIn(Res.elements[k], Res.map[1]) >= 1

\* A pass completes with two live function definitions of the same range and
\* name, in two units.
C1_Witness ==
    /\ IsSome(results) /\ Res.outcome = "Ok"
    /\ \E n, o \in NodesBelowRoot :
          /\ n[1] # o[1]
          /\ IsLiveFunction(EntryAt(n), live_functions)
          /\ EntryAt(o) = EntryAt(n)
          /\ EntriesWith(Res.map[1], DeclaredRange(EntryAt(n)),
                         demangle(NameOf(EntryAt(n))).value) = 2

----------------------------------------------------------------------------
(* C2 *)

\* C2: on a pass that completes, for every function definition whose name is
\* not in the live set, no element is pushed for it, and none for an inline
\* call site in its subtree.
C2_DeadFunctionSubtreeYieldsNothing ==
    (IsSome(results) /\ Res.outcome = "Ok") =>
        \A n \in AllNodes :
            IsDeadFunction(EntryAt(n), live_functions) =>
                /\ PushedFor(Res, n) = {}
                /\ \A o \in AllNodes :
                      (/\ o[1] = n[1]
                       /\ InSubtree(input[n[1]], n[2], o[2])
                       /\ IsInlineCallSite(EntryAt(o)))
                      => PushedFor(Res, o) = {}

----------------------------------------------------------------------------
(* C3 *)

\* The address range an inline call site resolves to: the first entry of its
\* range list, else [low, low + offset).
ResolvedRange(e) == IF IsSome(e.ranges) THEN Head(e.ranges[1]) ELSE DeclaredRange(e)

\* The pass completed and the map holds the entry of the inline call site o,
\* which lies in the subtree of the function definition n.
HoldsInlineEntry(r, n, o) ==
    /\ IsSome(EntryAt(o).abstract_origin)
    /\ HasName(EntryAt(o).abstract_origin[1])
    /\ \E x \in BagToSet(r.map[1]) :
          /\ x.range = ResolvedRange(EntryAt(o))
          /\ x.value.name = demangle(NameOf(EntryAt(o).abstract_origin[1])).value
          /\ x.value.depth = DepthAt(o)
          /\ x.value.depth > DepthAt(n)

InlineSitesInLiveFunctions(nodes) ==
    {no \in nodes \X AllNodes :
        /\ no[1][1] = no[2][1]
        /\ IsLiveFunction(EntryAt(no[1]), live_functions) /\ HasAddress(EntryAt(no[1]))
        /\ IsInlineCallSite(EntryAt(no[2]))
        /\ InSubtree(input[no[1][1]], no[1][2], no[2][2])}

\* C3, as stated: on a pass that completes, for every inline call site in the
\* subtree of a live function definition with an address, the map holds an
\* entry with the resolved range of the call site, the name demangle(name of
\* the origin) and the depth of the call site, greater than the depth of the
\* function definition.
C3_InlineEntryInEveryLiveFunction ==
    (IsSome(results) /\ Res.outcome = "Ok") =>
        \A no \in InlineSitesInLiveFunctions(AllNodes) : HoldsInlineEntry(Res, no[1], no[2])

\* C3, amended: the same for every live function definition below the root of
\* its unit; and that entry is the one element pushed for the call site.
C3_InlineEntryBelowRoot ==
    (IsSome(results) /\ Res.outcome = "Ok") =>
        \A no \in InlineSitesInLiveFunctions(NodesBelowRoot) :
            /\ HoldsInlineEntry(Res, no[1], no[2])
            /\ Cardinality(PushedFor(Res, no[2])) = 1
            /\ \A k \in PushedFor(Res, no[2]) :
                  /\ Res.elements[k].range = ResolvedRange(EntryAt(no[2]))
                  /\ Res.elements[k].value.depth = DepthAt(no[2])
                  /\ CopiesIn(Res.elements[k], Res.map[1]) >= 1

\* A pass completes with an inline call site that is in a live function
\* definition and not its child.
C3_Witness ==
    /\ IsSome(results) /\ Res.outcome = "Ok"
    /\ \E no \in InlineSitesInLiveFunctions(NodesBelowRoot) :
          DepthAt(no[2]) > DepthAt(no[1]) + 1

----------------------------------------------------------------------------
(* C4 *)

\* The DIE the cursor yielded last was an inline call site and an element was
\* pushed for it.
InlineElementPushed ==
    /\ path # <<>>
    /\ Last(path).element # 0
    /\ IsInlineCallSite(Last(path).entry)

\* C4: an inline call site's element is appended only while subprogram_depth
\* is Some(d), with its depth greater than d; the call site is a strict
\* descendant of a live function definition at depth d whose element precedes
\* it; and every inline element of the list is preceded, among the elements
\* of its unit, by the element of a live function definition of lesser depth.
C4_InlineOnlyInsideLiveFunction ==
    /\ InlineElementPushed =>
          /\ IsSome(subprogram_depth)
          /\ Last(path).depth > subprogram_depth[1]
          /\ \E a \in 2..(Len(path) - 1) :
                /\ path[a].depth = subprogram_depth[1]
                /\ IsLiveFunction(path[a].entry, live_functions)
                /\ path[a].element \in 1..(Last(path).element - 1)
                /\ elements[path[a].element].value.depth = subprogram_depth[1]
                /\ elements[Last(path).element].value.depth > subprogram_depth[1]
    /\ \A k \in 1..Len(elements) :
          IsInlineCallSite(emitter[k].entry) =>
              \E j \in 1..(k - 1) :
                  /\ emitter[j].unit = emitter[k].unit
                  /\ IsLiveFunction(emitter[j].entry, live_functions)
                  /\ elements[j].value.depth < elements[k].value.depth

\* An inline call site two levels below a live function definition of the
\* second unit has just had its element pushed.
C4_Witness ==
    /\ InlineElementPushed
    /\ units_read = 2
    /\ Last(path).depth = subprogram_depth[1] + 2

----------------------------------------------------------------------------
(* C5 *)

NestedSubprogram == "BUG? nested subprogram"

\* The step visits a live function definition with an address, at a depth
\* greater than the d of the subprogram_depth = Some(d) it starts with.
VisitsNestedLiveFunction ==
    /\ entries_read' = entries_read + 1
    /\ IsLiveFunction(Last(path').entry, live_functions)
    /\ HasAddress(Last(path').entry)
    /\ IsSome(subprogram_depth)
    /\ Last(path').depth > subprogram_depth[1]

\* C5: a step ends in the nested-subprogram failure exactly when it visits a
\* live function definition with an address at a depth greater than d while
\* subprogram_depth = Some(d); and then the pass panics and returns no map.
C5_NestedLiveSubprogramAborts ==
    [][ /\ (error' = NestedSubprogram /\ error # NestedSubprogram) <=> VisitsNestedLiveFunction
        /\ error' = NestedSubprogram => (outcome' = "panic" /\ map' = None) ]_vars

\* The pass has ended in the nested-subprogram failure, in the second unit.
C5_Witness ==
    /\ error = NestedSubprogram
    /\ units_read = 2
    /\ Len(elements) >= 1

----------------------------------------------------------------------------
(* C6 *)

HasFailed == outcome \in {"Err", "panic"}

\* The step meets one of the fatal conditions: a unit without a DIE, a named
\* function definition without inlined marker that lacks an address, a nested
\* live function definition, or, within a live function, an inline call site
\* without an origin or whose origin has no name.
MeetsFatalCondition ==
    \/ units_read' = units_read + 1 /\ path' = <<>>
    \/ /\ entries_read' = entries_read + 1
       /\ LET e == Last(path').entry
          IN  \/ IsFunctionDefinition(e) /\ HasName(e) /\ ~e.inlined /\ ~HasAddress(e)
              \/ VisitsNestedLiveFunction
              \/ /\ IsInlineCallSite(e)
                 /\ IsSome(subprogram_depth')
                 /\ \/ e.abstract_origin = None
                    \/ ~HasName(e.abstract_origin[1])

\* C6: a step that meets a fatal condition ends the pass in failure, a pass
\* that fails returns no map, and after a failure nothing more is read or
\* changed.
C6_FailureEndsThePass ==
    [][ /\ ~HasFailed
        /\ MeetsFatalCondition => HasFailed'
        /\ HasFailed' => (map' = None /\ pc' = "returned") ]_vars

\* The pass failed in its second unit, after elements were pushed, with input
\* left to read.
C6_Witness ==
    /\ HasFailed
    /\ units_read = 2
    /\ Len(elements) >= 2
    /\ entries_read < MaxEntries

----------------------------------------------------------------------------
(* C7 *)

\* C7: a step that visits a function definition with a name and no inlined
\* marker but without low_pc or without high_pc makes the pass panic and
\* return no map, whether the name is live or not; a step that visits a
\* function definition without any name does not fail and pushes nothing.
C7_MissingAddressIsFatal ==
    [][ entries_read' = entries_read + 1 =>
          LET e == Last(path').entry
          IN  /\ (IsFunctionDefinition(e) /\ HasName(e) /\ ~e.inlined /\ ~HasAddress(e)) =>
                    /\ outcome' = "panic"
                    /\ error' = (IF e.low_pc = None THEN "Subprogram: no low_pc"
                                 ELSE "Subprogram: no high_pc")
                    /\ map' = None
              /\ (IsFunctionDefinition(e) /\ ~HasName(e)) =>
                    /\ outcome' = "running"
                    /\ elements' = elements ]_vars

\* The pass panicked on a function definition that lacks an address and whose
\* name is not live.
C7_Witness ==
    /\ outcome = "panic"
    /\ path # <<>>
    /\ IsDeadFunction(Last(path).entry, live_functions)
    /\ ~Last(path).entry.inlined
    /\ ~HasAddress(Last(path).entry)
    /\ Len(elements) >= 1

----------------------------------------------------------------------------
(* C8 *)

\* The set of (range, name, depth) of the map of a completed pass.
Triples(r) == {<<x.range, x.value.name, x.value.depth>> : x \in BagToSet(r.map[1])}

\* C8: the pass fails for one order of the units if and only if it fails for
\* every order; when it completes, every order yields the same set of (range,
\* name, depth), the union of what `from` yields for each unit alone.
C8_UnitOrderIsImmaterial ==
    IsSome(results) =>
        LET alone == [u \in 1..Len(input) |-> from(<<input[u]>>, live_functions)]
            each_ok == \A u \in 1..Len(input) : alone[u].outcome = "Ok"
        IN  /\ \A p, q \in DOMAIN results[1] :
                  (results[1][p].outcome = "Ok") <=> (results[1][q].outcome = "Ok")
            /\ Res.outcome = "Ok" <=> each_ok
            /\ each_ok =>
                  \A p \in DOMAIN results[1] :
                      Triples(results[1][p]) =
                          UNION {Triples(alone[u]) : u \in 1..Len(input)}

\* A pass completes in which a unit that ends inside a live function is
\* followed by a unit whose first DIE below the root is an inline call site.
C8_Witness ==
    /\ IsSome(results) /\ Res.outcome = "Ok"
    /\ \E u \in 1..(Len(input) - 1) :
          /\ Len(input[u]) = 2 /\ IsLiveFunction(input[u][2].entry, live_functions)
          /\ Len(input[u + 1]) = 2 /\ IsInlineCallSite(input[u + 1][2].entry)

----------------------------------------------------------------------------
(* C9 *)

\* The last 19 characters of d are `::h` and 16 hexadecimal digits.
EndsInHash(d) ==
    /\ Len(d) >= hash_len
    /\ StartsWith(SubSeq(d, Len(d) - hash_len + 1, Len(d)), <<":", ":", "h">>)
    /\ \A i \in (Len(d) - hash_len + 4)..Len(d) : d[i] \in HexDigits

\* C9: demangle never fails; it returns the demangled name without its last
\* 19 characters if those are `::h` and 16 hexadecimal digits, and the
\* demangled name unchanged for every other name.
C9_StripsExactlyTheHash ==
    IsSome(demangled) =>
        /\ ~demangled[1].panic
        /\ demangled[1].value =
              IF EndsInHash(rustc_demangle(function))
              THEN SubSeq(rustc_demangle(function), 1,
                          Len(rustc_demangle(function)) - hash_len)
              ELSE rustc_demangle(function)

----------------------------------------------------------------------------
(* C10 *)

\* C10: the name demangle returns for a non-empty name is not empty.
C10_StrippedNameNeverEmpty ==
    (IsSome(demangled) /\ function # <<>> /\ ~demangled[1].panic) =>
        demangled[1].value # <<>>

----------------------------------------------------------------------------
(* dep::Path (src/src/dep/mod.rs).  A std::path::Path is the string it was    *)
(* made of, here a sequence of tokens: the separator "/" and file names.      *)
(* The three matchers live in the modules cratesio, rust_std and rustc, of    *)
(* which mod.rs holds the declarations, the callers and a test.               *)

\* path::MAIN_SEPARATOR
MAIN_SEPARATOR == "/"

\* Path::components: RootDir for a leading separator, then a Normal for each
\* file name; a `.` that is not in front is left out.
components(p) ==
    LET names == SelectSeq(p, LAMBDA t : t # MAIN_SEPARATOR)
        normals == [i \in 1..Len(names) |-> [kind |-> "Normal", name |-> names[i]]]
        kept == SelectSeq(normals, LAMBDA c : c.name # ".")
    IN  IF p # <<>> /\ p[1] = MAIN_SEPARATOR
        THEN <<[kind |-> "RootDir", name |-> MAIN_SEPARATOR]>> \o kept
        ELSE IF names # <<>> /\ names[1] = "."
        THEN <<[kind |-> "CurDir", name |-> "."]>> \o kept
        ELSE kept

\* get_component_normal
get_component_normal(component) ==
    IF component.kind = "Normal" THEN Some(component.name) ELSE None

\* The components of cs from the i-th on are the file names of `names`.
NormalsAt(cs, i, names) ==
    /\ i >= 1 /\ i + Len(names) - 1 <= Len(cs)
    /\ \A k \in 1..Len(names) : get_component_normal(cs[i + k - 1]) = Some(names[k])

\* The file name at the i-th component, if there is one.
NormalAt(cs, i) == IF i \in 1..Len(cs) THEN get_component_normal(cs[i]) ELSE None

\* rust_std::Path::from_std_path: a path into the rust-std component of a
\* rustup toolchain, <..>/toolchains/<toolchain>/lib/rustlib/src/rust/<rest>.
rust_std_from_std_path(p) ==
    LET cs == components(p)
        at == {i \in 1..Len(cs) :
                  /\ NormalsAt(cs, i, <<"toolchains">>)
                  /\ IsSome(NormalAt(cs, i + 1))
                  /\ NormalsAt(cs, i + 2, <<"lib", "rustlib", "src", "rust">>)}
    IN  IF at = {} THEN None
        ELSE LET i == CHOOSE i \in at : \A j \in at : i <= j
             IN  Some([toolchain |-> NormalAt(cs, i + 1)[1],
                       rest |-> SubSeq(cs, i + 6, Len(cs))])

\* rustc::Path::from_std_path: a remapped rust-lang/rust path,
\* /rustc/<commit>/<rest>.
rustc_from_std_path(p) ==
    LET cs == components(p)
    IN  IF /\ Len(cs) >= 3
           /\ cs[1].kind = "RootDir"
           /\ NormalsAt(cs, 2, <<"rustc">>)
           /\ IsSome(NormalAt(cs, 3))
        THEN Some([commit |-> NormalAt(cs, 3)[1], rest |-> SubSeq(cs, 4, Len(cs))])
        ELSE None

\* cratesio::Path::from_std_path: a path into the sources of a registry,
\* <..>/registry/src/<registry>/<crate>/<rest>.
cratesio_from_std_path(p) ==
    LET cs == components(p)
        at == {i \in 1..Len(cs) :
                  /\ NormalsAt(cs, i, <<"registry", "src">>)
                  /\ IsSome(NormalAt(cs, i + 2))
                  /\ IsSome(NormalAt(cs, i + 3))}
    IN  IF at = {} THEN None
        ELSE LET i == CHOOSE i \in at : \A j \in at : i <= j
             IN  Some([registry |-> NormalAt(cs, i + 2)[1],
                       crate |-> NormalAt(cs, i + 3)[1],
                       rest |-> SubSeq(cs, i + 4, Len(cs))])

\* A variant of from_std_path that asks the rustc matcher first.
from_std_path_RustcFirst(p) ==
    IF IsSome(rustc_from_std_path(p))
    THEN [variant |-> "Rustc", inner |-> rustc_from_std_path(p)[1]]
    ELSE IF IsSome(rust_std_from_std_path(p))
    THEN [variant |-> "RustStd", inner |-> rust_std_from_std_path(p)[1]]
    ELSE IF IsSome(cratesio_from_std_path(p))
    THEN [variant |-> "Cratesio", inner |-> cratesio_from_std_path(p)[1]]
    ELSE [variant |-> "Verbatim", inner |-> p]

\* Path::from_std_path
from_std_path(p) ==
    IF IsSome(rust_std_from_std_path(p))
    THEN [variant |-> "RustStd", inner |-> rust_std_from_std_path(p)[1]]
    ELSE IF IsSome(rustc_from_std_path(p))
    THEN [variant |-> "Rustc", inner |-> rustc_from_std_path(p)[1]]
    ELSE IF IsSome(cratesio_from_std_path(p))
    THEN [variant |-> "Cratesio", inner |-> cratesio_from_std_path(p)[1]]
    ELSE [variant |-> "Verbatim", inner |-> p]

\* path.display().to_string(): the string of the path, token by token.
display(p) == [i \in 1..Len(p) |-> p[i]]

\* The format_short and format_highlight of the matchers' paths: a string
\* made from the parts the matcher found.
matcher_format(d, how) == <<how, d.variant>>

\* Path::format_short
format_short(d) ==
    IF d.variant = "Verbatim" THEN display(d.inner) ELSE matcher_format(d, "short")

\* Path::format_highlight
format_highlight(d) ==
    IF d.variant = "Verbatim" THEN display(d.inner) ELSE matcher_format(d, "highlight")

----------------------------------------------------------------------------
(* The paths: a separator in front or none, then up to MaxChunks of the       *)
(* directory runs the paths of the test are made of.                          *)

MaxChunks == 3

HomeDir == <<"home", "user">>
RustupDir == <<".rustup", "toolchains", "stable-x86_64-unknown-linux-gnu",
               "lib", "rustlib", "src", "rust">>
RustcDir == <<"rustc", "9bc8c42bb2f19e745a63f3445f1ac248fb015e53">>
RegistryDir == <<".cargo", "registry", "src", "github.com-1ecc6299db9ec823",
                 "cortex-m-rt-0.6.13">>
PanickingRs == <<"library", "core", "src", "panicking.rs">>
AtomicRs == <<"library", "core", "src", "sync", "atomic.rs">>
LibRs == <<"src", "lib.rs">>

Chunks == {HomeDir, RustupDir, RustcDir, RegistryDir, PanickingRs, AtomicRs, LibRs}

RECURSIVE Joined(_)
\* The file names with a separator between them.
Joined(names) ==
    IF Len(names) <= 1 THEN names
    ELSE <<names[1], MAIN_SEPARATOR>> \o Joined(Tail(names))

RECURSIVE Flat(_)
Flat(chunks) == IF chunks = <<>> THEN <<>> ELSE Head(chunks) \o Flat(Tail(chunks))

\* format!("{s}a{s}b", s = path::MAIN_SEPARATOR) and format!("a{s}b", ...)
Absolute(chunks) == <<MAIN_SEPARATOR>> \o Joined(Flat(chunks))
Relative(chunks) == Joined(Flat(chunks))

\* The paths of tests::from_std_path_returns_correct_variant
test_cratesio == Absolute(<<HomeDir, RegistryDir, LibRs>>)
test_rustc == Absolute(<<RustcDir, PanickingRs>>)
test_rust_std == Absolute(<<HomeDir, RustupDir, AtomicRs>>)
test_local == Relative(<<LibRs>>)

StdPaths ==
    UNION {{Absolute(cs) : cs \in [1..n -> Chunks]} \cup {Relative(cs) : cs \in [1..n -> Chunks]} :
           n \in 0..MaxChunks}

InitDep ==
    /\ WalkIdle
    /\ function = <<>> /\ demangled = None
    /\ input = <<>> /\ results = None
    /\ std_path \in StdPaths
    /\ dep_path = None /\ short = None /\ highlight = None

FromStdPath ==
    /\ dep_path = None
    /\ dep_path' = Some(from_std_path(std_path))
    /\ UNCHANGED <<std_path, short, highlight>>

FormatShort ==
    /\ IsSome(dep_path) /\ short = None
    /\ short' = Some(format_short(dep_path[1]))
    /\ UNCHANGED <<std_path, dep_path, highlight>>

FormatHighlight ==
    /\ IsSome(dep_path) /\ highlight = None
    /\ highlight' = Some(format_highlight(dep_path[1]))
    /\ UNCHANGED <<std_path, dep_path, short>>

NextDep ==
    /\ \/ FromStdPath
       \/ FormatShort
       \/ FormatHighlight
    /\ UNCHANGED <<walk_vars, demangle_vars, input_vars>>

SpecDep == InitDep /\ [][NextDep]_vars

----------------------------------------------------------------------------
(* C11 *)

\* The variant the precedence rust-std, rustc, crates.io gives the path.
VariantByPrecedence(p) ==
    IF IsSome(rust_std_from_std_path(p)) THEN "RustStd"
    ELSE IF IsSome(rustc_from_std_path(p)) THEN "Rustc"
    ELSE IF IsSome(cratesio_from_std_path(p)) THEN "Cratesio"
    ELSE "Verbatim"

\* C11: from_std_path returns, for every path, RustStd when the rust-std
\* matcher recognises it, else Rustc when the rustc matcher does, else
\* Cratesio when the crates.io matcher does, else Verbatim holding the path;
\* the four paths of the test give Cratesio, Rustc, RustStd and Verbatim; and
\* format_short and format_highlight of a Verbatim path are the path as given.
C11_ClassifiesByPrecedence ==
    IsSome(dep_path) =>
        /\ dep_path[1].variant = VariantByPrecedence(std_path)
        /\ dep_path[1].variant = "Verbatim" => dep_path[1].inner = std_path
        /\ std_path = test_cratesio => dep_path[1].variant = "Cratesio"
        /\ std_path = test_rustc => dep_path[1].variant = "Rustc"
        /\ std_path = test_rust_std => dep_path[1].variant = "RustStd"
        /\ std_path = test_local => dep_path[1].variant = "Verbatim"
        /\ (dep_path[1].variant = "Verbatim" /\ IsSome(short)) => short[1] = std_path
        /\ (dep_path[1].variant = "Verbatim" /\ IsSome(highlight)) => highlight[1] = std_path

\* A path that the rust-std matcher and the rustc matcher both recognise has
\* been classified, and formatted both ways.
C11_Witness ==
    /\ IsSome(dep_path) /\ IsSome(short) /\ IsSome(highlight)
    /\ IsSome(rust_std_from_std_path(std_path))
    /\ IsSome(rustc_from_std_path(std_path))
    /\ dep_path[1].variant = "RustStd"

----------------------------------------------------------------------------
(* C13 *)

\* The DIE on the path at depth d is a live function definition with an
\* address for which an element was pushed.
LiveFunctionAt(p, d) ==
    /\ d + 1 \in 1..Len(p)
    /\ p[d + 1].depth = d
    /\ IsLiveFunction(p[d + 1].entry, live_functions)
    /\ HasAddress(p[d + 1].entry)
    /\ p[d + 1].element # 0

\* subprogram_depth = Some(d) only at or below the live function definition
\* that set it: depth >= d, the DIE visited last is that definition when
\* depth = d, and a strict descendant of it when depth > d.
InsideLiveFunction(sd, dp, p) ==
    IsSome(sd) =>
        /\ dp >= sd[1]
        /\ LiveFunctionAt(p, sd[1])
        /\ dp = sd[1] <=> Len(p) = sd[1] + 1

\* C13: after every step, subprogram_depth = Some(d) implies depth >= d, with
\* equality only on the step that visited the live function definition which
\* set it, and every DIE visited while Some(d) persists is a strict descendant
\* of that definition; a step whose updated depth is <= d resets
\* subprogram_depth to None before it examines the DIE, so that the DIE is not
\* taken for nested and, if it is an inline call site, pushes nothing.
C13_SomeOnlyWithinTheLiveFunction ==
    [][ /\ (pc' = "next_dfs" \/ entries_read' = entries_read + 1) =>
              InsideLiveFunction(subprogram_depth', depth', path')
        /\ (/\ entries_read' = entries_read + 1
            /\ IsSome(subprogram_depth)
            /\ depth' <= subprogram_depth[1]) =>
              /\ error' # NestedSubprogram
              /\ \/ subprogram_depth' = None
                 \/ /\ subprogram_depth' = Some(depth')
                    /\ LiveFunctionAt(path', depth')
                    /\ Len(path') = depth' + 1
              /\ ~IsFunctionDefinition(Last(path').entry) => elements' = elements ]_vars

\* The traversal is two levels below the live function definition that set
\* subprogram_depth, in the second unit.
C13_Witness ==
    /\ pc = "next_dfs"
    /\ IsSome(subprogram_depth)
    /\ depth = subprogram_depth[1] + 2
    /\ units_read = 2

----------------------------------------------------------------------------
(* The walk on more kinds of DIEs.  A unit is read as DIEs of a few kinds     *)
(* (ContextDies) and then one DIE of any kind.                                *)

\* A function definition that is not in live_functions, with code.
DeadFn == Subprogram(None, Some(off_g), FALSE, Some(1), Some(2))

\* An origin: a function definition that was only ever inlined.
Origin == Subprogram(Some(off_f), Some(off_g), TRUE, None, None)

\* Function definitions named by both names, by the display name alone, and
\* with the inlined marker.
MoreSubprogramDies ==
    { Subprogram(Some(off_g), Some(off_f), FALSE, Some(4), Some(1)),
      Subprogram(Some(off_f), Some(off_g), FALSE, Some(4), Some(1)),
      Subprogram(None, Some(off_f), FALSE, Some(4), Some(1)),
      Subprogram(Some(off_f), None, TRUE, None, None),
      Subprogram(Some(off_f), None, TRUE, Some(1), Some(2)),
      Subprogram(None, Some(off_g), TRUE, Some(1), None),
      Subprogram(Some(off_e), None, FALSE, Some(4), Some(1)) }

\* Inline call sites: with a range list next to low_pc and high_pc, with an
\* empty range list, without low_pc, without high_pc, without call_file,
\* without call_line, and with an origin that has no name, that lacks its
\* address, or whose name is off_e.
MoreInlinedSubroutineDies ==
    { InlinedSubroutine(Some(Origin), None, Some(<<(<<5, 6>>), (<<8, 9>>)>>),
                        Some(2), Some(1), Some(1), Some(7)),
      InlinedSubroutine(Some(Origin), None, Some(<<>>), Some(2), Some(1), Some(1), Some(7)),
      InlinedSubroutine(Some(Origin), None, None, None, Some(1), Some(1), Some(7)),
      InlinedSubroutine(Some(Origin), None, None, Some(2), None, Some(1), Some(7)),
      InlinedSubroutine(Some(Origin), None, None, Some(2), Some(1), None, Some(7)),
      InlinedSubroutine(Some(Origin), None, None, Some(2), Some(1), Some(1), None),
      InlinedSubroutine(Some(Subprogram(None, None, FALSE, None, None)),
                        None, None, Some(2), Some(1), Some(1), Some(7)),
      InlinedSubroutine(Some(Subprogram(None, Some(off_g), FALSE, None, None)),
                        None, None, Some(2), Some(1), Some(1), Some(7)),
      InlinedSubroutine(Some(Subprogram(None, Some(off_e), TRUE, None, None)),
                        None, None, Some(2), Some(1), Some(1), Some(7)) }

AllDies == Dies \cup MoreSubprogramDies \cup MoreInlinedSubroutineDies

ContextDies == {NoAttrs("DW_TAG_lexical_block"), LiveFn, DeadFn}

\* The first DIE of a unit, of any tag.
AllRootDies ==
    { NoAttrs("DW_TAG_lexical_block"), InlineOk,
      Subprogram(Some(off_f), None, FALSE, None, Some(2)) }

NextDies ==
    /\ \/ \E root \in AllRootDies : EnterUnit(root)
       \/ EmptyUnit
       \/ \E delta_depth \in -MaxEntries..1, entry \in AllDies :
             /\ path # <<>>
             /\ Len(path) = 1 \/ Last(path).entry \in ContextDies
             /\ NextDfs(delta_depth, entry)
       \/ LeaveUnit
       \/ Return
       \/ ReaderError
    /\ UNCHANGED <<demangle_vars, input_vars, dep_vars>>

SpecDies == Init /\ [][NextDies]_vars

----------------------------------------------------------------------------
(* C14 *)

\* The step reads a DIE below the root of a unit.
ReadsEntry == entries_read' = entries_read + 1

\* subprogram_depth as the reset at a DIE of depth d leaves it.
AfterReset(d, sd) == IF sd # None /\ d <= sd[1] THEN None ELSE sd

\* A function definition that is unnamed, or carries the inlined marker, or
\* has an address and a name that is not in the live set.
IsInertFunction(e, live) ==
    /\ IsFunctionDefinition(e)
    /\ \/ ~HasName(e)
       \/ e.inlined
       \/ HasAddress(e) /\ NameOf(e) \notin live

\* C14: a step on a function definition that is unnamed, or inlined-only, or
\* has an address but is not in the live set appends no element, does not
\* fail, and leaves subprogram_depth as the reset left it; a step on a DIE
\* that is neither a function definition nor an inline call site changes
\* nothing but depth and subprogram_depth, the latter by that reset.
C14_InertNodesChangeNothing ==
    [][ ReadsEntry =>
          LET e == Last(path').entry
              d == Last(path').depth
          IN  /\ IsInertFunction(e, live_functions) =>
                    /\ elements' = elements
                    /\ subprogram_depth' = AfterReset(d, subprogram_depth)
                    /\ outcome' = "running"
              /\ (~IsFunctionDefinition(e) /\ ~IsInlineCallSite(e)) =>
                    /\ depth' = d
                    /\ subprogram_depth' = AfterReset(d, subprogram_depth)
                    /\ UNCHANGED <<elements, outcome, error, map, live_functions, units_read>> ]_vars

\* A function definition with an address that is not live has just been read
\* below a live function definition, which subprogram_depth still records.
C14_Witness ==
    /\ pc = "next_dfs"
    /\ Len(path) >= 3
    /\ IsDeadFunction(Last(path).entry, live_functions)
    /\ HasAddress(Last(path).entry) /\ ~Last(path).entry.inlined
    /\ subprogram_depth = Some(Last(path).depth - 1)
    /\ Len(elements) >= 1

----------------------------------------------------------------------------
(* C15 *)

\* The step treats the function definition it reads as live: it pushes an
\* element for it or ends in the nested-subprogram failure.
TreatedAsLive ==
    \/ Len(elements') = Len(elements) + 1
    \/ error' = NestedSubprogram

\* C15: of a function definition with an address and no inlined marker, the
\* name tested against the live set and put (demangled) into the Frame is the
\* linkage name when the DIE has one and the display name only when it has no
\* linkage name; so a definition with both names whose display name alone is
\* live is treated as dead; and a definition with neither name yields no
\* element and no failure and leaves subprogram_depth as the reset left it.
C15_LinkageNameBeforeDisplayName ==
    [][ (ReadsEntry /\ IsFunctionDefinition(Last(path').entry)) =>
          LET e == Last(path').entry
              Used(off) ==
                  /\ TreatedAsLive <=> DebugStr[off] \in live_functions
                  /\ Len(elements') = Len(elements) + 1 =>
                        Last(elements').value.name = demangle(DebugStr[off]).value
          IN  /\ (HasAddress(e) /\ ~e.inlined /\ e.linkage_name # None) => Used(e.linkage_name[1])
              /\ (HasAddress(e) /\ ~e.inlined /\ e.linkage_name = None /\ e.name # None) =>
                    Used(e.name[1])
              /\ (e.linkage_name = None /\ e.name = None) =>
                    /\ elements' = elements
                    /\ outcome' = "running" /\ error' = error
                    /\ subprogram_depth' = AfterReset(Last(path').depth, subprogram_depth) ]_vars

\* A function definition whose display name is live and whose linkage name is
\* not has just been read, outside any live function, and nothing was pushed
\* for it; and an element was pushed earlier for a definition that is live by
\* its display name alone.
C15_Witness ==
    /\ pc = "next_dfs" /\ path # <<>>
    /\ LET e == Last(path).entry
       IN  /\ IsFunctionDefinition(e) /\ HasAddress(e) /\ ~e.inlined
           /\ e.linkage_name # None /\ e.name # None
           /\ DebugStr[e.name[1]] \in live_functions
           /\ DebugStr[e.linkage_name[1]] \notin live_functions
    /\ Last(path).element = 0
    /\ subprogram_depth = None
    /\ \E k \in 1..Len(emitter) :
          /\ emitter[k].entry.linkage_name = None
          /\ IsFunctionDefinition(emitter[k].entry)

----------------------------------------------------------------------------
(* C16 *)

\* C16: a step on a function definition that has a name and the inlined
\* marker pushes no element, leaves subprogram_depth as the reset left it and
\* does not fail, whether the DIE has low_pc and high_pc, only one of them or
\* none, and whether its name is live or not.
C16_InlinedMarkerMeansNoAddress ==
    [][ (/\ ReadsEntry
         /\ IsFunctionDefinition(Last(path').entry)
         /\ HasName(Last(path').entry)
         /\ Last(path').entry.inlined) =>
            /\ Len(elements') = Len(elements)
            /\ subprogram_depth' = AfterReset(Last(path').depth, subprogram_depth)
            /\ outcome' = "running" /\ pc' = "next_dfs" /\ map' = None ]_vars

\* A function definition with the inlined marker, a live name and both
\* address attributes has just been read outside any live function, in the
\* second unit, and no element has been pushed.
C16_Witness ==
    /\ pc = "next_dfs" /\ path # <<>>
    /\ LET e == Last(path).entry
       IN  /\ IsFunctionDefinition(e) /\ e.inlined /\ HasAddress(e)
           /\ HasName(e) /\ NameOf(e) \in live_functions
    /\ subprogram_depth = None
    /\ units_read = 2
    /\ elements = <<>>

----------------------------------------------------------------------------
(* C17 *)

\* The step reads an inline call site while subprogram_depth, after the
\* reset, is Some(_).
ReadsInlineSiteInLiveFunction ==
    /\ ReadsEntry
    /\ IsInlineCallSite(Last(path').entry)
    /\ AfterReset(Last(path').depth, subprogram_depth) # None

\* C17: the range of the element pushed for an inline call site is the first
\* entry of its range list when the DIE has DW_AT_ranges, whatever low_pc and
\* high_pc it has besides, and [low_pc, low_pc + high_pc) otherwise; and an
\* inline call site visited within a live function that has neither
\* DW_AT_ranges nor both low_pc and high_pc makes the pass panic, nothing
\* being pushed and no map returned.
C17_RangeListBeforeLowPc ==
    [][ ReadsInlineSiteInLiveFunction =>
          LET e == Last(path').entry
          IN  /\ Len(elements') = Len(elements) + 1 =>
                    Last(elements').range =
                        IF e.ranges # None THEN e.ranges[1][1]
                        ELSE <<e.low_pc[1], e.low_pc[1] + e.pc_offset[1]>>
              /\ (e.ranges = None /\ (e.low_pc = None \/ e.pc_offset = None)) =>
                    /\ outcome' = "panic"
                    /\ elements' = elements
                    /\ map' = None ]_vars

\* An element has just been pushed for an inline call site that has a range
\* list of two entries as well as low_pc and high_pc, and they disagree.
C17_Witness ==
    /\ pc = "next_dfs" /\ path # <<>>
    /\ IsInlineCallSite(Last(path).entry)
    /\ Last(path).element # 0
    /\ Last(path).element = Len(elements)
    /\ Last(path).entry.ranges # None
    /\ Len(Last(path).entry.ranges[1]) = 2
    /\ HasAddress(Last(path).entry)
    /\ DeclaredRange(Last(path).entry) # Last(elements).range

----------------------------------------------------------------------------
(* C18 *)

\* The DIE the abstract origin refers to yields no usable Subprogram: it has
\* no name, or it has no inlined marker and lacks low_pc or high_pc.
OriginUnusable(o) == ~HasName(o) \/ (~o.inlined /\ ~HasAddress(o))

\* The inline call site has no address range: no range list or an empty one,
\* and not both low_pc and high_pc.
LacksRange(e) ==
    \/ e.ranges = None /\ ~HasAddress(e)
    \/ e.ranges # None /\ e.ranges[1] = <<>>

\* An inline call site that lacks its abstract origin, or whose origin is
\* unusable, or that lacks call_file, call_line or an address range.
IsDefectiveInlineSite(e) ==
    \/ e.abstract_origin = None
    \/ e.abstract_origin # None /\ OriginUnusable(e.abstract_origin[1])
    \/ e.call_file = None
    \/ e.call_line = None
    \/ LacksRange(e)

\* C18: a step on an inline call site makes the pass fail if and only if
\* subprogram_depth, after the reset, is Some(_) and the call site lacks its
\* abstract origin, or its origin yields no usable Subprogram, or it lacks
\* call_file, call_line or an address range; the same call site read while
\* subprogram_depth is None is ignored without failure.
C18_InlineSiteFailsIffDefective ==
    [][ (ReadsEntry /\ IsInlineCallSite(Last(path').entry)) =>
          (HasFailed' <=>
              /\ AfterReset(Last(path').depth, subprogram_depth) # None
              /\ IsDefectiveInlineSite(Last(path').entry)) ]_vars

----------------------------------------------------------------------------
(* C19 *)

\* The step asks the unit iterator for a unit and gets one.
ReadsUnit == units_read' = units_read + 1

\* C19: when the cursor of a unit yields no first DIE the pass ends with an
\* error and without a map, whatever was pushed for the units before; when it
\* yields one, the DIE is not examined, whatever its tag and attributes: the
\* step pushes no element, does not fail, and the unit starts with depth 0
\* and subprogram_depth None.
C19_FirstDieIsOnlyCheckedToExist ==
    [][ ReadsUnit =>
          /\ path' = <<>> =>
                /\ outcome' = "Err" /\ error' = "empty DWARF?"
                /\ map' = None /\ pc' = "returned"
                /\ elements' = elements
          /\ path' # <<>> =>
                /\ Len(path') = 1
                /\ elements' = elements /\ emitter' = emitter
                /\ subprogram_depth' = None
                /\ depth' = 0
                /\ outcome' = "running" /\ error' = "" /\ pc' = "next_dfs" ]_vars

\* The second unit has just been entered, after an element was pushed in the
\* first, and its first DIE is a live function definition that lacks low_pc:
\* a DIE on which the loop body would panic.
C19_Witness ==
    /\ pc = "next_dfs" /\ outcome = "running"
    /\ units_read = 2
    /\ Len(path) = 1
    /\ IsLiveFunction(path[1].entry, live_functions)
    /\ ~HasAddress(path[1].entry)
    /\ Len(elements) >= 1
    /\ subprogram_depth = None /\ depth = 0

====
